---------------------------- MODULE Spec2Model ----------------------------
(***************************************************************************)
(* MedVerify: the streaming analysis pipeline (medgemma_analyzer.py), the  *)
(* PubMed evidence retriever (pubmed_search.py) and the Streamlit handler  *)
(* that sequences them (app.py).                                           *)
(*                                                                         *)
(* Text is modelled at character level: a Python str is a sequence of      *)
(* one-character strings.  Characters outside ASCII are written by their   *)
(* code point name ("U+2022" is the bullet, "U+00B7" the middle dot,       *)
(* "U+6C34" a CJK ideograph).                                              *)
(***************************************************************************)
EXTENDS Integers, Sequences, FiniteSets, TLC

(***************************************************************************)
(* Characters and the str methods the code uses.                           *)
(***************************************************************************)

\* str.strip() / regex \s: the whitespace characters of the model alphabet.
Whitespace == {" ", "\t", "\n"}

UpperLetters ==
    <<"A", "B", "C", "D", "E", "F", "G", "H", "I", "J", "K", "L", "M",
      "N", "O", "P", "Q", "R", "S", "T", "U", "V", "W", "X", "Y", "Z">>

LowerLetters ==
    <<"a", "b", "c", "d", "e", "f", "g", "h", "i", "j", "k", "l", "m",
      "n", "o", "p", "q", "r", "s", "t", "u", "v", "w", "x", "y", "z">>

DigitChars == <<"0", "1", "2", "3", "4", "5", "6", "7", "8", "9">>

Range(f) == {f[i] : i \in DOMAIN f}

SetMin(S) == CHOOSE m \in S : \A k \in S : m <= k

IsDigit(c) == c \in Range(DigitChars)

DigitVal(c) == (CHOOSE i \in 1..10 : DigitChars[i] = c) - 1

\* str.lower() on one character.
LowerChar(c) ==
    IF c \in Range(UpperLetters)
    THEN LowerLetters[CHOOSE i \in 1..26 : UpperLetters[i] = c]
    ELSE c

\* str.lower()
Lower(s) == [i \in 1..Len(s) |-> LowerChar(s[i])]

\* str.strip()
Strip(s) ==
    IF \A i \in 1..Len(s) : s[i] \in Whitespace THEN <<>>
    ELSE LET first == CHOOSE i \in 1..Len(s) :
                          /\ s[i] \notin Whitespace
                          /\ \A k \in 1..(i - 1) : s[k] \in Whitespace
             last  == IF s[Len(s)] \notin Whitespace THEN Len(s)
                      ELSE CHOOSE j \in 1..Len(s) :
                               /\ s[j] \notin Whitespace
                               /\ \A k \in (j + 1)..Len(s) :
                                      s[k] \in Whitespace
         IN  SubSeq(s, first, last)

\* str.lstrip(chars)
LStrip(s, chars) ==
    IF \A i \in 1..Len(s) : s[i] \in chars THEN <<>>
    ELSE LET first == CHOOSE i \in 1..Len(s) :
                          /\ s[i] \notin chars
                          /\ \A k \in 1..(i - 1) : s[k] \in chars
         IN  SubSeq(s, first, Len(s))

\* s[:n]
Prefix(s, n) == SubSeq(s, 1, IF Len(s) < n THEN Len(s) ELSE n)

\* whether sub occurs in s at index i
OccursAt(s, sub, i) ==
    /\ i >= 1
    /\ i + Len(sub) - 1 <= Len(s)
    /\ \A k \in 1..Len(sub) : s[i + k - 1] = sub[k]

\* sub in s
Contains(s, sub) == \E i \in 1..(Len(s) + 1) : OccursAt(s, sub, i)

\* str.splitlines() on the line break "\n": no empty last line after a
\* trailing break, and no line at all for the empty string.
RECURSIVE SplitLines(_)
SplitLines(s) ==
    IF s = <<>> THEN <<>>
    ELSE LET brk == {i \in 1..Len(s) : s[i] = "\n"}
         IN  IF brk = {} THEN <<s>>
             ELSE <<SubSeq(s, 1, SetMin(brk) - 1)>>
                      \o SplitLines(SubSeq(s, SetMin(brk) + 1, Len(s)))

\* " ".join(parts), ", ".join(parts), "".join(parts)
RECURSIVE Join(_, _)
Join(sep, parts) ==
    IF parts = <<>> THEN <<>>
    ELSE IF Len(parts) = 1 THEN parts[1]
    ELSE parts[1] \o sep \o Join(sep, Tail(parts))

\* c * n: n copies of the character c
RECURSIVE Rep(_, _)
Rep(c, n) ==
    IF n = 0 THEN <<>>
    ELSE LET half == Rep(c, n \div 2)
         IN  IF n % 2 = 0 THEN half \o half ELSE half \o half \o <<c>>

(***************************************************************************)
(* String constants of medgemma_analyzer.py and pubmed_search.py.          *)
(***************************************************************************)

(***************************************************************************)
(* Numbers of the source.                                                  *)
(***************************************************************************)

\* app.py: the character limit the caption shows
MaxClaimChars == 5000

\* raw_text[:500], the medical-accuracy fallback
MedicalAccuracyFallbackChars == 500

\* [a-zA-Z]{3,}
MinWordLen == 3

\* [\u4e00-\u9fff]{2,4}
MinCJKRun == 2

MaxCJKRun == 4

\* keywords[:5]
MaxKeywords == 5

\* text[:50]
KeywordFallbackChars == 50

\* article.findall(".//Author")[:3]
MaxAuthors == 3

\* findtext(".//PubDate/MedlineDate", "")[:4]
YearChars == 4

\* the abstract's [:300]
AbstractChars == 300

(***************************************************************************)
(* Bounds of the model.                                                    *)
(***************************************************************************)

\* fragments one generation run produces, at most
MaxFragments == 3

\* articles in one EFetch document, at most
MaxBatch == 3

\* pieces one model output is put together from, at most
MaxPieces == 3

\* pieces one score text is put together from, at most
MaxScorePieces == 4

\* pieces one list section is put together from, at most
MaxListPieces == 4

\* "Credibility Score"
TagCredibilityScore ==
    <<"C", "r", "e", "d", "i", "b", "i", "l", "i", "t", "y", " ", "S", "c",
    "o", "r", "e">>

\* "Risk Level"
TagRiskLevel ==
    <<"R", "i", "s", "k", " ", "L", "e", "v", "e", "l">>

\* "Risk Reason"
TagRiskReason ==
    <<"R", "i", "s", "k", " ", "R", "e", "a", "s", "o", "n">>

\* "Medical Accuracy"
TagMedicalAccuracy ==
    <<"M", "e", "d", "i", "c", "a", "l", " ", "A", "c", "c", "u", "r", "a",
    "c", "y">>

\* "Logical Fallacies"
TagLogicalFallacies ==
    <<"L", "o", "g", "i", "c", "a", "l", " ", "F", "a", "l", "l", "a", "c",
    "i", "e", "s">>

\* "Evidence Summary"
TagEvidenceSummary ==
    <<"E", "v", "i", "d", "e", "n", "c", "e", " ", "S", "u", "m", "m", "a",
    "r", "y">>

\* "Key Misconceptions"
TagKeyMisconceptions ==
    <<"K", "e", "y", " ", "M", "i", "s", "c", "o", "n", "c", "e", "p", "t",
    "i", "o", "n", "s">>

\* "Scientific Rebuttal"
TagScientificRebuttal ==
    <<"S", "c", "i", "e", "n", "t", "i", "f", "i", "c", " ", "R", "e", "b",
    "u", "t", "t", "a", "l">>

\* "Expert Recommendation"
TagExpertRecommendation ==
    <<"E", "x", "p", "e", "r", "t", " ", "R", "e", "c", "o", "m", "m", "e",
    "n", "d", "a", "t", "i", "o", "n">>

\* "Safe"
LevelSafe ==
    <<"S", "a", "f", "e">>

\* "Misleading"
LevelMisleading ==
    <<"M", "i", "s", "l", "e", "a", "d", "i", "n", "g">>

\* "Dangerous"
LevelDangerous ==
    <<"D", "a", "n", "g", "e", "r", "o", "u", "s">>

\* "Model produced no output; check HF token and GPU memory."
EmptyRiskReason ==
    <<"M", "o", "d", "e", "l", " ", "p", "r", "o", "d", "u", "c", "e", "d",
    " ", "n", "o", " ", "o", "u", "t", "p", "u", "t", ";", " ", "c", "h", "e",
    "c", "k", " ", "H", "F", " ", "t", "o", "k", "e", "n", " ", "a", "n", "d",
    " ", "G", "P", "U", " ", "m", "e", "m", "o", "r", "y", ".">>

\* "Analysis failed; please try again."
EmptyMedicalAccuracy ==
    <<"A", "n", "a", "l", "y", "s", "i", "s", " ", "f", "a", "i", "l", "e",
    "d", ";", " ", "p", "l", "e", "a", "s", "e", " ", "t", "r", "y", " ", "a",
    "g", "a", "i", "n", ".">>

\* "Please verify against medical literature manually."
EmptyEvidenceSummary ==
    <<"P", "l", "e", "a", "s", "e", " ", "v", "e", "r", "i", "f", "y", " ",
    "a", "g", "a", "i", "n", "s", "t", " ", "m", "e", "d", "i", "c", "a", "l",
    " ", "l", "i", "t", "e", "r", "a", "t", "u", "r", "e", " ", "m", "a", "n",
    "u", "a", "l", "l", "y", ".">>

\* "This claim needs further verification; consult a healthcare professional."
EmptyRebuttal ==
    <<"T", "h", "i", "s", " ", "c", "l", "a", "i", "m", " ", "n", "e", "e",
    "d", "s", " ", "f", "u", "r", "t", "h", "e", "r", " ", "v", "e", "r", "i",
    "f", "i", "c", "a", "t", "i", "o", "n", ";", " ", "c", "o", "n", "s", "u",
    "l", "t", " ", "a", " ", "h", "e", "a", "l", "t", "h", "c", "a", "r", "e",
    " ", "p", "r", "o", "f", "e", "s", "s", "i", "o", "n", "a", "l", ".">>

\* "For health-related information, consult a qualified healthcare provider."
DefaultRecommendation ==
    <<"F", "o", "r", " ", "h", "e", "a", "l", "t", "h", "-", "r", "e", "l",
    "a", "t", "e", "d", " ", "i", "n", "f", "o", "r", "m", "a", "t", "i", "o",
    "n", ",", " ", "c", "o", "n", "s", "u", "l", "t", " ", "a", " ", "q", "u",
    "a", "l", "i", "f", "i", "e", "d", " ", "h", "e", "a", "l", "t", "h", "c",
    "a", "r", "e", " ", "p", "r", "o", "v", "i", "d", "e", "r", ".">>

\* "(empty)"
EmptyRawOutput ==
    <<"(", "e", "m", "p", "t", "y", ")">>

\* "Not provided"
DefaultRiskReason ==
    <<"N", "o", "t", " ", "p", "r", "o", "v", "i", "d", "e", "d">>

\* "No evidence description found"
DefaultEvidenceSummary ==
    <<"N", "o", " ", "e", "v", "i", "d", "e", "n", "c", "e", " ", "d", "e",
    "s", "c", "r", "i", "p", "t", "i", "o", "n", " ", "f", "o", "u", "n",
    "d">>

\* "Consult a healthcare professional for more information."
DefaultRebuttal ==
    <<"C", "o", "n", "s", "u", "l", "t", " ", "a", " ", "h", "e", "a", "l",
    "t", "h", "c", "a", "r", "e", " ", "p", "r", "o", "f", "e", "s", "s", "i",
    "o", "n", "a", "l", " ", "f", "o", "r", " ", "m", "o", "r", "e", " ", "i",
    "n", "f", "o", "r", "m", "a", "t", "i", "o", "n", ".">>

\* "N/A"
NotAvailable ==
    <<"N", "/", "A">>

\* "Unknown"
UnknownAuthors ==
    <<"U", "n", "k", "n", "o", "w", "n">>

\* "Unknown Journal"
UnknownJournal ==
    <<"U", "n", "k", "n", "o", "w", "n", " ", "J", "o", "u", "r", "n", "a",
    "l">>

\* "et al."
EtAl ==
    <<"e", "t", " ", "a", "l", ".">>

\* "..."
Ellipsis ==
    <<".", ".", ".">>

\* "https://pubmed.ncbi.nlm.nih.gov/"
PubmedUrlPrefix ==
    <<"h", "t", "t", "p", "s", ":", "/", "/", "p", "u", "b", "m", "e", "d",
    ".", "n", "c", "b", "i", ".", "n", "l", "m", ".", "n", "i", "h", ".", "g",
    "o", "v", "/">>

\* ("none", "n/a", "na")
Sentinels == {<<"n", "o", "n", "e">>, <<"n", "/", "a">>, <<"n", "a">>}

\* ('-', bullet, middle dot, '*')
BulletMarkers == {"-", "U+2022", "U+00B7", "*"}

(***************************************************************************)
(* medgemma_analyzer.py: the parser utility functions.                     *)
(***************************************************************************)

\* a pattern without the tag lookahead, (.*?)(?=$): no index is one
NoTagAhead(text, p) == FALSE

\* The lookahead \[[^\]]+\] at index p: "[", at least one character other
\* than "]", then "]".
TagAhead(text, p) ==
    /\ p + 2 <= Len(text)
    /\ text[p] = "["
    /\ text[p + 1] # "]"
    /\ \E q \in (p + 2)..Len(text) : text[q] = "]"

\* The lookahead $ (no MULTILINE): the end of the text, or just before a
\* line break that is its last character.
EndAhead(text, p) ==
    \/ p = Len(text) + 1
    \/ p = Len(text) /\ text[p] = "\n"

\* re.search(r'\[tag\]\s*(.*?)(?=\[[^\]]+\]|$)', text, re.DOTALL), then
\* group(1).strip(); "" without a match.
extract_section(text, tag) ==
    LET marker == <<"[">> \o tag \o <<"]">>
        hits   == {i \in 1..Len(text) : OccursAt(text, marker, i)}
    IN  IF hits = {} THEN <<>>
        ELSE LET after == SetMin(hits) + Len(marker)
                 body  == {i \in after..Len(text) : text[i] \notin Whitespace}
                 start == IF body = {} THEN Len(text) + 1 ELSE SetMin(body)
                 stop  == SetMin({p \in start..(Len(text) + 1) :
                                     TagAhead(text, p) \/ EndAhead(text, p)})
             IN  Strip(SubSeq(text, start, stop - 1))

\* One line of extract_list_items: the items it appends (none or one).
ListItemOf(rawline) ==
    LET line    == Strip(rawline)
        cleaned == Strip(LStrip(line, BulletMarkers \cup {" "}))
    IN  IF line # <<>> /\ line[1] \in BulletMarkers
           /\ cleaned # <<>> /\ Lower(cleaned) \notin Sentinels
        THEN <<cleaned>>
        ELSE <<>>

RECURSIVE BulletItems(_)
BulletItems(lines) ==
    IF lines = <<>> THEN <<>>
    ELSE ListItemOf(Head(lines)) \o BulletItems(Tail(lines))

extract_list_items(section_text) ==
    LET items == BulletItems(SplitLines(section_text))
        whole == Strip(section_text)
    IN  IF items = <<>> /\ whole # <<>> /\ Lower(whole) \notin Sentinels
        THEN <<whole>>
        ELSE items

\* int(token) of a run of digits
RECURSIVE ToInt(_)
ToInt(digits) ==
    IF digits = <<>> THEN 0
    ELSE 10 * ToInt(SubSeq(digits, 1, Len(digits) - 1))
             + DigitVal(digits[Len(digits)])

\* re.findall(r'\d+', s): the maximal runs of digits, as (first, last)
\* index pairs.
DigitRuns(s) ==
    {<<a, b>> \in (1..Len(s)) \X (1..Len(s)) :
        /\ a <= b
        /\ \A k \in a..b : IsDigit(s[k])
        /\ (a = 1 \/ ~IsDigit(s[a - 1]))
        /\ (b = Len(s) \/ ~IsDigit(s[b + 1]))}

\* 0 <= int(token) <= 100 for a run of digits. Python's integers are
\* unbounded and TLC's are not, so the test is made on the digits: without
\* its leading zeros the token has at most two digits, or is "100".
InScoreRange(digits) ==
    LET significant == LStrip(digits, {"0"})
    IN  Len(significant) <= 2 \/ significant = <<"1", "0", "0">>

\* the loop without its range test: the first token, whatever its value
extract_score_unchecked(score_text) ==
    LET runs == DigitRuns(score_text)
    IN  IF runs = {} THEN 50
        ELSE LET first == CHOOSE r \in runs : \A o \in runs : r[1] <= o[1]
             IN  ToInt(SubSeq(score_text, first[1], first[2]))

\* int(token) of the first token with 0 <= val <= 100; 50 without one
extract_score(score_text) ==
    LET ok == {r \in DigitRuns(score_text) :
                  InScoreRange(SubSeq(score_text, r[1], r[2]))}
    IN  IF ok = {} THEN 50
        ELSE LET first == CHOOSE r \in ok : \A o \in ok : r[1] <= o[1]
             IN  ToInt(SubSeq(score_text, first[1], first[2]))

\* the test without its strip(): `not raw_text`
IsBlankNoStrip(s) == s = <<>>

\* `not raw_text or not raw_text.strip()`
IsBlank(s) == s = <<>> \/ Strip(s) = <<>>

\* the loop over ["Safe", "Misleading", "Dangerous"] with its default
RiskLevelOf(risk_level_text) ==
    LET low == Lower(risk_level_text)
    IN  IF Contains(low, Lower(LevelSafe)) THEN LevelSafe
        ELSE IF Contains(low, Lower(LevelMisleading)) THEN LevelMisleading
        ELSE IF Contains(low, Lower(LevelDangerous)) THEN LevelDangerous
        ELSE LevelMisleading

\* `a or b` on strings
OrElse(a, b) == IF a = <<>> THEN b ELSE a

parse_model_output(raw_text) ==
    IF IsBlank(raw_text)
    THEN [credibility_score  |-> 0,
          risk_level         |-> LevelMisleading,
          risk_reason        |-> EmptyRiskReason,
          medical_accuracy   |-> EmptyMedicalAccuracy,
          logical_fallacies  |-> <<>>,
          evidence_summary   |-> EmptyEvidenceSummary,
          key_misconceptions |-> <<>>,
          rebuttal           |-> EmptyRebuttal,
          recommendation     |-> DefaultRecommendation,
          parse_error        |-> TRUE,
          raw_output         |-> EmptyRawOutput]
    ELSE [credibility_score  |->
              extract_score(extract_section(raw_text, TagCredibilityScore)),
          risk_level         |->
              RiskLevelOf(extract_section(raw_text, TagRiskLevel)),
          risk_reason        |->
              OrElse(extract_section(raw_text, TagRiskReason),
                     DefaultRiskReason),
          medical_accuracy   |->
              OrElse(extract_section(raw_text, TagMedicalAccuracy),
                     Prefix(raw_text, MedicalAccuracyFallbackChars)),
          logical_fallacies  |->
              extract_list_items(
                  extract_section(raw_text, TagLogicalFallacies)),
          evidence_summary   |->
              OrElse(extract_section(raw_text, TagEvidenceSummary),
                     DefaultEvidenceSummary),
          key_misconceptions |->
              extract_list_items(
                  extract_section(raw_text, TagKeyMisconceptions)),
          rebuttal           |->
              OrElse(extract_section(raw_text, TagScientificRebuttal),
                     DefaultRebuttal),
          recommendation     |->
              OrElse(extract_section(raw_text, TagExpertRecommendation),
                     DefaultRecommendation),
          raw_output         |-> raw_text]

(***************************************************************************)
(* pubmed_search.py: keyword extraction.                                   *)
(***************************************************************************)

\* the stopwords set of extract_keywords
Stopwords ==
    {<<"U+7684">>, <<"U+4E86">>, <<"U+548C">>, <<"U+662F">>, <<"U+5728">>,
     <<"U+6211">>, <<"U+6709">>, <<"U+4ED6">>, <<"U+8FD9">>, <<"U+4E2A">>,
     <<"U+4EEC">>, <<"U+4E2D">>, <<"U+6765">>, <<"U+4E0A">>, <<"U+5927">>,
     <<"U+4E3A">>, <<"U+4E0E">>, <<"U+4F1A">>, <<"U+5BF9">>, <<"U+53EF">>,
     <<"t", "h", "e">>, <<"a">>, <<"a", "n">>, <<"i", "s">>,
     <<"a", "r", "e">>, <<"w", "a", "s">>, <<"w", "e", "r", "e">>,
     <<"b", "e">>, <<"b", "e", "e", "n">>, <<"c", "a", "n">>,
     <<"c", "o", "u", "l", "d">>, <<"w", "i", "l", "l">>,
     <<"w", "o", "u", "l", "d">>, <<"s", "h", "o", "u", "l", "d">>,
     <<"m", "a", "y">>, <<"m", "i", "g", "h", "t">>, <<"t", "o">>,
     <<"o", "f">>, <<"i", "n">>, <<"f", "o", "r">>, <<"o", "n">>,
     <<"w", "i", "t", "h">>, <<"a", "t">>, <<"b", "y">>,
     <<"f", "r", "o", "m">>}

\* [\u4e00-\u9fff]: the ideographs of the model alphabet
CJKChars == {"U+6C34", "U+7684"}

\* [a-zA-Z]
IsLetter(c) == c \in Range(UpperLetters) \cup Range(LowerLetters)

\* whether c is in the class cls: a set of characters, or the letters when
\* cls = {}
InClass(c, cls) == IF cls = {} THEN IsLetter(c) ELSE c \in cls

\* the length of the run of characters of class cls that starts at index i
RunLen(text, i, cls) ==
    IF \A k \in i..Len(text) : InClass(text[k], cls) THEN Len(text) + 1 - i
    ELSE (CHOOSE k \in i..Len(text) :
              /\ ~InClass(text[k], cls)
              /\ \A j \in i..(k - 1) : InClass(text[j], cls)) - i

\* re.findall(r'[a-zA-Z]{3,}|[\u4e00-\u9fff]{2,4}', text) from index i on:
\* at each index the first alternative that matches, greedily, then the
\* scan resumes after the match.
RECURSIVE FindWords(_, _)
FindWords(text, i) ==
    IF i > Len(text) THEN <<>>
    ELSE LET letters == RunLen(text, i, {})
             cjk     == RunLen(text, i, CJKChars)
             take    == IF cjk > MaxCJKRun THEN MaxCJKRun ELSE cjk
         IN  IF letters >= MinWordLen
             THEN <<SubSeq(text, i, i + letters - 1)>>
                      \o FindWords(text, i + letters)
             ELSE IF cjk >= MinCJKRun
             THEN <<SubSeq(text, i, i + take - 1)>>
                      \o FindWords(text, i + take)
             ELSE FindWords(text, i + 1)

extract_keywords(text) ==
    LET words    == FindWords(text, 1)
        keywords == SelectSeq(words, LAMBDA w : Lower(w) \notin Stopwords)
        selected == Prefix(keywords, MaxKeywords)
    IN  IF selected # <<>> THEN Join(<<" ">>, selected)
        ELSE Prefix(text, KeywordFallbackChars)

(***************************************************************************)
(* pubmed_search.py: the ESearch response.  A decoded JSON value is        *)
(* [t, v]: t its Python type and v its content.                            *)
(***************************************************************************)

JNull == [t |-> "null", v |-> 0]

JNum(n) == [t |-> "num", v |-> n]

JStr(s) == [t |-> "str", v |-> s]

JList(items) == [t |-> "list", v |-> items]

JObj(fields) == [t |-> "obj", v |-> fields]

\* the result of an expression that may raise
Value(x) == [raises |-> FALSE, value |-> x]

Raise(exc) == [raises |-> TRUE, value |-> exc]

\* d.get(key, default): only a dict has .get
PyGet(d, key, default) ==
    IF d.t # "obj" THEN Raise("AttributeError")
    ELSE IF key \in DOMAIN d.v THEN Value(d.v[key])
    ELSE Value(default)

\* data.get("esearchresult", {}).get("idlist", [])
IdListOf(data) ==
    LET res == PyGet(data, "esearchresult", JObj(<<>>))
    IN  IF res.raises THEN res
        ELSE PyGet(res.value, "idlist", JList(<<>>))

\* a test for None alone: `if pmid_list is None`
FalsyNoneOnly(x) == x.t = "null"

\* `not x` on a decoded JSON value
Falsy(x) ==
    \/ x.t = "null"
    \/ x.t = "num" /\ x.v = 0
    \/ x.t \in {"str", "list"} /\ x.v = <<>>
    \/ x.t = "obj" /\ DOMAIN x.v = {}

\* ",".join(pmid_list): every item must be a str
JoinIds(pmid_list) ==
    IF pmid_list.t = "list"
    THEN IF \A i \in 1..Len(pmid_list.v) : pmid_list.v[i].t = "str"
         THEN Value(Join(<<",">>,
                  [i \in 1..Len(pmid_list.v) |-> pmid_list.v[i].v]))
         ELSE Raise("TypeError")
    ELSE IF pmid_list.t = "str"
    THEN Value(Join(<<",">>,
             [i \in 1..Len(pmid_list.v) |-> <<pmid_list.v[i]>>]))
    ELSE Raise("TypeError")

\* lines 70-78 of search_pubmed: the try block around the ESearch call.
\* resp is what urlopen and json.loads give.
ESearchTry(resp) ==
    IF resp.kind \in {"urlopen_error", "bad_json"} THEN Raise("Exception")
    ELSE IdListOf(resp.data)

(***************************************************************************)
(* pubmed_search.py: parse_pubmed_xml.  A parsed <PubmedArticle> is a      *)
(* record of what the find/findall calls see; an optional element is a     *)
(* sequence of length 0 (absent) or 1.                                     *)
(***************************************************************************)

\* "".join(el.itertext())
FlatText(pieces) == Join(<<>>, pieces)

\* the authors loop with its "et al." marker
AuthorsOf(article) ==
    LET firsts == Prefix(article.authors, MaxAuthors)
        named  == SelectSeq(firsts, LAMBDA a : a.last # <<>>)
        names  == [i \in 1..Len(named) |->
                      Strip(named[i].last \o <<" ">> \o named[i].initials)]
    IN  IF Len(article.authors) > MaxAuthors
        THEN Append(names, EtAl) ELSE names

\* findtext(".//PubDate/Year") or findtext(".//PubDate/MedlineDate", "")[:4]
\* or "N/A"
YearOf(article) ==
    LET year    == IF article.year = <<>> THEN <<>> ELSE article.year[1]
        medline == IF article.medline = <<>> THEN <<>>
                   ELSE article.medline[1]
    IN  OrElse(year, OrElse(Prefix(medline, YearChars), NotAvailable))

\* the abstract: the AbstractText elements joined, cut, and marked
AbstractOf(article) ==
    LET cut == Prefix(Join(<<" ">>,
                   [i \in 1..Len(article.abstracts) |->
                       FlatText(article.abstracts[i])]), AbstractChars)
    IN  IF Len(cut) = AbstractChars THEN cut \o Ellipsis ELSE cut

\* the body of the per-article try block: the dict it appends
ArticleRecord(article) ==
    LET pmid    == IF article.pmid = <<>> THEN <<>> ELSE article.pmid[1]
        authors == AuthorsOf(article)
    IN  [title    |-> IF article.title = <<>> THEN NotAvailable
                      ELSE FlatText(article.title[1]),
         authors  |-> IF authors # <<>> THEN Join(<<",", " ">>, authors)
                      ELSE UnknownAuthors,
         journal  |-> IF article.journal = <<>> THEN UnknownJournal
                      ELSE article.journal[1],
         year     |-> YearOf(article),
         pmid     |-> pmid,
         abstract |-> AbstractOf(article),
         url      |-> IF pmid # <<>>
                      THEN PubmedUrlPrefix \o pmid \o <<"/">> ELSE <<>>]

\* a loop that skips an article without its <ArticleTitle>
RECURSIVE ArticleRecordsTitledOnly(_)
ArticleRecordsTitledOnly(articles) ==
    IF articles = <<>> THEN <<>>
    ELSE (IF Head(articles).title = <<>> THEN <<>>
          ELSE <<ArticleRecord(Head(articles))>>)
             \o ArticleRecordsTitledOnly(Tail(articles))

\* the for loop of parse_pubmed_xml over root.findall(".//PubmedArticle")
RECURSIVE ArticleRecords(_)
ArticleRecords(articles) ==
    IF articles = <<>> THEN <<>>
    ELSE <<ArticleRecord(Head(articles))>> \o ArticleRecords(Tail(articles))

\* parse_pubmed_xml: ET.fromstring raises ParseError on malformed XML,
\* which is caught, and LookupError on an unknown declared encoding,
\* which is not.
parse_pubmed_xml(xml_data) ==
    IF xml_data.kind = "malformed" THEN Value(<<>>)
    ELSE IF xml_data.kind = "unknown_encoding" THEN Raise("LookupError")
    ELSE Value(ArticleRecords(xml_data.articles))

(***************************************************************************)
(* The analysis run: app.py's handler (or a direct caller of               *)
(* analyze_health_claim_stream) in the foreground, the generation worker   *)
(* thread in the background, the streamer's queue between them, then the   *)
(* PubMed search.                                                          *)
(***************************************************************************)

VARIABLES
    caller,         \* "app": the Analyze button; "direct": the function alone
    user_input,     \* the claim
    enable_pubmed,  \* the sidebar toggle, as the handler reads it
    pc,             \* the foreground's position
    gen,            \* the generator's position
    model_loaded,   \* load_model() has returned
    worker_claim,   \* the claim build_messages embedded, once started
    thread,         \* the generation thread
    joined,         \* thread.join() has returned
    produced,       \* the fragments the worker has produced, in order
    text_queue,     \* the streamer's queue
    received,       \* the fragments the generator has yielded, in order
    raw_text,       \* what the consumer has assembled
    parsed_input,   \* the text handed to parse_model_output
    result,         \* parse_model_output's result
    errors,         \* st.error calls
    spc,            \* search_pubmed's position
    query,          \* the ESearch term
    esearch_calls,  \* ESearch calls issued
    efetch_calls,   \* EFetch calls issued
    slept,          \* time.sleep(0.4) was taken
    pmid_list,      \* the decoded idlist
    fetch_ids,      \* the id parameter of the EFetch call
    search_result,  \* what search_pubmed returned
    pubmed_papers,  \* the handler's evidence list
    xml_data,       \* parse_pubmed_xml called alone: its argument
    xml_pc,         \* ... and its position
    xml_returned,   \* ... and what it returned
    model_output,   \* parse_model_output called alone: its argument
    parse_pc,       \* ... and its position
    parse_returned, \* ... and what it returned
    score_text,     \* extract_score called alone: its argument
    score_pc,       \* ... and its position
    score_returned, \* ... and what it returned
    section_text,   \* extract_list_items called alone: its argument
    list_pc,        \* ... and its position
    list_returned   \* ... and what it returned

streamVars ==
    <<model_loaded, worker_claim, thread, joined, produced, text_queue,
      received, raw_text>>

searchVars ==
    <<spc, query, esearch_calls, efetch_calls, slept, pmid_list, fetch_ids,
      search_result>>

utilVars ==
    <<score_text, score_pc, score_returned, section_text, list_pc,
      list_returned>>

callVars ==
    <<xml_data, xml_pc, xml_returned, model_output, parse_pc, parse_returned,
      utilVars>>

runVars ==
    <<caller, user_input, enable_pubmed, pc, gen, model_loaded, worker_claim,
      thread, joined, produced, text_queue, received, raw_text, parsed_input,
      result, errors, spc, query, esearch_calls, efetch_calls, slept,
      pmid_list, fetch_ids, search_result, pubmed_papers>>

vars == <<runVars, callVars>>

\* "tea cures flu"
ClaimTea ==
    <<"t", "e", "a", " ", "c", "u", "r", "e", "s", " ", "f", "l", "u">>

\* The claims a run is started on: empty, whitespace only, a plain claim,
\* one of stopwords and short words only, and one over the character limit.
ClaimInputs ==
    {<<>>,
     <<" ", "\n">>,
     ClaimTea,
     <<" ", "t", "h", "e", " ", "U+6C34", " ", "o", "f", " ">>,
     Rep("a", MaxClaimChars + 1)}

\* The text fragments the generation can emit.
Fragments ==
    {<<>>,
     <<"[">> \o TagCredibilityScore \o <<"]", " ", "8", "5", "\n">>,
     <<"[">> \o TagRiskLevel \o <<"]", "s", "a", "f", "e">>}

Fragment(f) == [stop |-> FALSE, text |-> f]

\* the streamer's stop signal
StopSignal == [stop |-> TRUE, text |-> <<>>]

\* the ids of the ESearch responses
PmidA == <<"3", "1">>

PmidB == <<"7">>

\* What urlopen and json.loads can give for the ESearch call.
ESearchResponses ==
    {[kind |-> "urlopen_error", data |-> JNull],
     [kind |-> "bad_json", data |-> JNull],
     [kind |-> "json", data |-> JList(<<>>)],
     [kind |-> "json", data |-> JObj(<<>>)],
     [kind |-> "json", data |-> JObj([esearchresult |-> JList(<<>>)])],
     [kind |-> "json",
      data |-> JObj([esearchresult |-> JObj([idlist |-> JNull])])],
     [kind |-> "json",
      data |-> JObj([esearchresult |-> JObj([idlist |-> JList(<<>>)])])],
     [kind |-> "json",
      data |-> JObj([esearchresult |->
                  JObj([idlist |-> JList(<<JStr(PmidA)>>)])])],
     [kind |-> "json",
      data |-> JObj([esearchresult |->
                  JObj([idlist |-> JList(<<JStr(PmidA), JStr(PmidB)>>)])])],
     [kind |-> "json",
      data |-> JObj([esearchresult |->
                  JObj([idlist |-> JList(<<JNum(31)>>)])])],
     [kind |-> "json",
      data |-> JObj([esearchresult |-> JObj([idlist |-> JStr(PmidA)])])]}

\* a <PubmedArticle> with none of the elements the parser looks for
ArticleBare ==
    [title |-> <<>>, authors |-> <<>>, journal |-> <<>>, year |-> <<>>,
     medline |-> <<>>, pmid |-> <<>>, abstracts |-> <<>>]

\* a complete record
ArticleFull ==
    [title     |-> <<<<<<"T", "e", "a">>, <<" ", "i", "n">>>>>>,
     authors   |-> <<[last |-> <<"L", "i">>, initials |-> <<"Q">>]>>,
     journal   |-> <<<<"B", "M", "J">>>>,
     year      |-> <<<<"2", "0", "2", "4">>>>,
     medline   |-> <<>>,
     pmid      |-> <<PmidA>>,
     abstracts |-> <<<<<<"O", "k">>>>>>]

\* a record without its <ArticleTitle>
ArticleNoTitle == [ArticleFull EXCEPT !.title = <<>>, !.pmid = <<PmidB>>]

\* a record with four authors (one without a last name), a MedlineDate in
\* place of the Year, and no journal
ArticleManyAuthors ==
    [title     |-> <<<<<<"F", "l", "u">>>>>>,
     authors   |-> <<[last |-> <<"X", "u">>, initials |-> <<>>],
                     [last |-> <<>>, initials |-> <<"A">>],
                     [last |-> <<"N", "g">>, initials |-> <<"B", "C">>],
                     [last |-> <<"O">>, initials |-> <<"D">>]>>,
     journal   |-> <<>>,
     year      |-> <<>>,
     medline   |-> <<<<"2", "0", "2", "1", " ", "J", "a", "n">>>>,
     pmid      |-> <<<<"9">>>>,
     abstracts |-> <<<<<<"A">>>>, <<<<"B">>, <<"c">>>>>>]

\* What urlopen and response.read() can give for the EFetch call.
EFetchResponses ==
    {[kind |-> "urlopen_error", articles |-> <<>>],
     [kind |-> "malformed", articles |-> <<>>],
     [kind |-> "unknown_encoding", articles |-> <<>>],
     [kind |-> "doc", articles |-> <<>>],
     [kind |-> "doc", articles |-> <<ArticleFull>>],
     [kind |-> "doc", articles |-> <<ArticleNoTitle, ArticleFull>>]}

NoResult == [parse_error |-> FALSE]

\* no document
NoXml == [kind |-> "none", articles |-> <<>>]

\* the state before a run on claim, started by who
RunInit(who, claim) ==
    /\ caller = who
    /\ user_input = claim
    /\ enable_pubmed = FALSE
    /\ pc = "idle"
    /\ gen = "none"
    /\ model_loaded = FALSE
    /\ worker_claim = <<>>
    /\ thread = "none"
    /\ joined = FALSE
    /\ produced = <<>>
    /\ text_queue = <<>>
    /\ received = <<>>
    /\ raw_text = <<>>
    /\ parsed_input = <<>>
    /\ result = NoResult
    /\ errors = 0
    /\ spc = "none"
    /\ query = <<>>
    /\ esearch_calls = 0
    /\ efetch_calls = 0
    /\ slept = FALSE
    /\ pmid_list = JNull
    /\ fetch_ids = <<>>
    /\ search_result = <<>>
    /\ pubmed_papers = <<>>

\* parse_pubmed_xml is about to be called on xml, or not at all
XmlInit(xml) ==
    /\ xml_data = xml
    /\ xml_pc = IF xml = NoXml THEN "none" ELSE "called"
    /\ xml_returned = <<>>

\* parse_model_output is about to be called on text, or not at all
ParseInit(called, text) ==
    /\ model_output = text
    /\ parse_pc = IF called THEN "called" ELSE "none"
    /\ parse_returned = NoResult

\* extract_score is about to be called on text, or not at all
ScoreInit(called, text) ==
    /\ score_text = text
    /\ score_pc = IF called THEN "called" ELSE "none"
    /\ score_returned = 0

\* extract_list_items is about to be called on text, or not at all
ListInit(called, text) ==
    /\ section_text = text
    /\ list_pc = IF called THEN "called" ELSE "none"
    /\ list_returned = <<>>

Init ==
    /\ \E who \in {"app", "direct"}, claim \in ClaimInputs :
          RunInit(who, claim)
    /\ XmlInit(NoXml)
    /\ ParseInit(FALSE, <<>>)
    /\ ScoreInit(FALSE, <<>>)
    /\ ListInit(FALSE, <<>>)

\* app.py: `if not user_input.strip()`
AppRejects(claim) == Strip(claim) = <<>>

\* the validation without its strip(): `if not health_claim`
ClaimRejectedNoStrip(health_claim) == health_claim = <<>>

\* analyze_health_claim_stream: `if not health_claim or not
\* health_claim.strip()`
ClaimRejected(health_claim) == IsBlank(health_claim)

\* The Analyze button: the warning and st.stop() for a blank claim, else
\* st.write_stream is handed the generator (no line of which has run yet).
AnalyzeClick ==
    /\ caller = "app"
    /\ pc = "idle"
    /\ IF AppRejects(user_input)
       THEN pc' = "warned" /\ gen' = gen
       ELSE pc' = "streaming" /\ gen' = "created"
    /\ UNCHANGED <<caller, user_input, enable_pubmed, parsed_input, result,
                   errors, pubmed_papers>>
    /\ UNCHANGED streamVars
    /\ UNCHANGED searchVars
    /\ UNCHANGED callVars

\* A caller that iterates analyze_health_claim_stream(claim) itself.
DirectCall ==
    /\ caller = "direct"
    /\ pc = "idle"
    /\ pc' = "streaming"
    /\ gen' = "created"
    /\ UNCHANGED <<caller, user_input, enable_pubmed, parsed_input, result,
                   errors, pubmed_papers>>
    /\ UNCHANGED streamVars
    /\ UNCHANGED searchVars
    /\ UNCHANGED callVars

\* An exception leaves the generator: app.py's except clause reports it
\* and stops; a direct caller sees it raised.
StreamRaised ==
    /\ gen' = "raised"
    /\ IF caller = "app"
       THEN pc' = "failed" /\ errors' = errors + 1
       ELSE pc' = "raised" /\ errors' = errors

\* The first next() on the generator: lines 167-200, up to thread.start().
\* load_model() and apply_chat_template() are external and may raise.
GenStart ==
    /\ pc = "streaming"
    /\ gen = "created"
    /\ \/ /\ ClaimRejected(user_input)
          /\ StreamRaised
          /\ UNCHANGED <<model_loaded, worker_claim, thread>>
       \/ /\ ~ClaimRejected(user_input)
          /\ StreamRaised
          /\ UNCHANGED <<model_loaded, worker_claim, thread>>
       \/ /\ ~ClaimRejected(user_input)
          /\ model_loaded' = TRUE
          /\ worker_claim' = Strip(user_input)
          /\ thread' = "running"
          /\ gen' = "draining"
          /\ UNCHANGED <<pc, errors>>
    /\ UNCHANGED <<caller, user_input, enable_pubmed, parsed_input, result,
                   pubmed_papers, joined, produced, text_queue, received,
                   raw_text>>
    /\ UNCHANGED searchVars
    /\ UNCHANGED callVars

\* model.generate in the worker: the streamer is given the next fragment.
WorkerPut ==
    /\ thread = "running"
    /\ Len(produced) < MaxFragments
    /\ \E f \in Fragments :
          /\ produced' = Append(produced, f)
          /\ text_queue' = Append(text_queue, Fragment(f))
    /\ UNCHANGED <<caller, user_input, enable_pubmed, pc, gen, model_loaded,
                   worker_claim, thread, joined, received, raw_text,
                   parsed_input, result, errors, pubmed_papers>>
    /\ UNCHANGED searchVars
    /\ UNCHANGED callVars

\* model.generate in the worker: generation stops and streamer.end() puts
\* the stop signal.
WorkerEnd ==
    /\ thread = "running"
    /\ text_queue' = Append(text_queue, StopSignal)
    /\ thread' = "ended"
    /\ UNCHANGED <<caller, user_input, enable_pubmed, pc, gen, model_loaded,
                   worker_claim, joined, produced, received, raw_text,
                   parsed_input, result, errors, pubmed_papers>>
    /\ UNCHANGED searchVars
    /\ UNCHANGED callVars

\* model.generate returns and the thread terminates.
WorkerReturn ==
    /\ thread = "ended"
    /\ thread' = "terminated"
    /\ UNCHANGED <<caller, user_input, enable_pubmed, pc, gen, model_loaded,
                   worker_claim, joined, produced, text_queue, received,
                   raw_text, parsed_input, result, errors, pubmed_papers>>
    /\ UNCHANGED searchVars
    /\ UNCHANGED callVars

\* model.generate raises in the worker: the thread dies with the exception
\* and nothing is put on the queue.
WorkerFail ==
    /\ thread = "running"
    /\ thread' = "failed"
    /\ UNCHANGED <<caller, user_input, enable_pubmed, pc, gen, model_loaded,
                   worker_claim, joined, produced, text_queue, received,
                   raw_text, parsed_input, result, errors, pubmed_papers>>
    /\ UNCHANGED searchVars
    /\ UNCHANGED callVars

\* a streamer that hands out the newest queued fragment instead of the
\* oldest
GenYieldNewest ==
    /\ gen = "draining"
    /\ text_queue # <<>>
    /\ ~Head(text_queue).stop
    /\ LET frags == {i \in 1..Len(text_queue) : ~text_queue[i].stop}
           last  == CHOOSE i \in frags : \A k \in frags : k <= i
       IN  /\ received' = Append(received, text_queue[last].text)
           /\ raw_text' = raw_text \o text_queue[last].text
           /\ text_queue' = SubSeq(text_queue, 1, last - 1)
                                \o SubSeq(text_queue, last + 1,
                                          Len(text_queue))
    /\ UNCHANGED <<caller, user_input, enable_pubmed, pc, gen, model_loaded,
                   worker_claim, thread, joined, produced, parsed_input,
                   result, errors, pubmed_papers>>
    /\ UNCHANGED searchVars
    /\ UNCHANGED callVars

\* `for token_text in streamer: yield token_text`: the queue's head is a
\* fragment, which the consumer appends to its text.
GenYield ==
    /\ gen = "draining"
    /\ text_queue # <<>>
    /\ ~Head(text_queue).stop
    /\ received' = Append(received, Head(text_queue).text)
    /\ raw_text' = raw_text \o Head(text_queue).text
    /\ text_queue' = Tail(text_queue)
    /\ UNCHANGED <<caller, user_input, enable_pubmed, pc, gen, model_loaded,
                   worker_claim, thread, joined, produced, parsed_input,
                   result, errors, pubmed_papers>>
    /\ UNCHANGED searchVars
    /\ UNCHANGED callVars

\* the queue's head is the stop signal: the for loop ends
GenStop ==
    /\ gen = "draining"
    /\ text_queue # <<>>
    /\ Head(text_queue).stop
    /\ text_queue' = Tail(text_queue)
    /\ gen' = "joining"
    /\ UNCHANGED <<caller, user_input, enable_pubmed, pc, model_loaded,
                   worker_claim, thread, joined, produced, received,
                   raw_text, parsed_input, result, errors, pubmed_papers>>
    /\ UNCHANGED searchVars
    /\ UNCHANGED callVars

\* a join that does not wait
JoinReturnsAtOnce(t) == TRUE

\* thread.join() returns once the thread is no longer alive
JoinReturns(t) == t \in {"terminated", "failed"}

\* thread.join(), then the generator is exhausted and the consumer has its
\* text: st.write_stream returns it to the handler.
GenJoin ==
    /\ gen = "joining"
    /\ JoinReturns(thread)
    /\ joined' = TRUE
    /\ gen' = "exhausted"
    /\ pc' = IF caller = "app" THEN "streamed" ELSE "drained"
    /\ UNCHANGED <<caller, user_input, enable_pubmed, model_loaded,
                   worker_claim, thread, produced, text_queue, received,
                   raw_text, parsed_input, result, errors, pubmed_papers>>
    /\ UNCHANGED searchVars
    /\ UNCHANGED callVars

\* result = parse_model_output(raw_text)
Parse ==
    /\ pc = "streamed"
    /\ parsed_input' = raw_text
    /\ result' = parse_model_output(raw_text)
    /\ pc' = "parsed"
    /\ UNCHANGED <<caller, user_input, enable_pubmed, gen, errors,
                   pubmed_papers>>
    /\ UNCHANGED streamVars
    /\ UNCHANGED searchVars
    /\ UNCHANGED callVars

\* `if enable_pubmed:` with the toggle on or off: get_evidence_for_claim is
\* called, which extracts the keywords and enters search_pubmed, or the
\* evidence list stays empty
StartSearch ==
    /\ pc = "parsed"
    /\ \E toggle \in BOOLEAN :
          /\ enable_pubmed' = toggle
          /\ IF toggle
             THEN /\ pc' = "searching"
                  /\ spc' = "called"
                  /\ query' = extract_keywords(user_input)
             ELSE /\ pc' = "report"
                  /\ UNCHANGED <<spc, query>>
    /\ UNCHANGED <<caller, user_input, gen, parsed_input, result, errors,
                   pubmed_papers, esearch_calls, efetch_calls, slept,
                   pmid_list, fetch_ids, search_result>>
    /\ UNCHANGED streamVars
    /\ UNCHANGED callVars

\* an ESearch that is issued once more after a failed first call
ESearchRetrying ==
    /\ spc = "called"
    /\ esearch_calls' = esearch_calls + 1
    /\ \E resp \in ESearchResponses :
          LET ids == ESearchTry(resp)
          IN  IF ids.raises
              THEN /\ spc' = IF esearch_calls = 0 THEN "called" ELSE "returned"
                   /\ pmid_list' = pmid_list
              ELSE /\ pmid_list' = ids.value
                   /\ spc' = IF Falsy(ids.value) THEN "returned"
                             ELSE "have_ids"
    /\ search_result' = <<>>
    /\ UNCHANGED <<caller, user_input, enable_pubmed, pc, gen, parsed_input,
                   result, errors, pubmed_papers, query, efetch_calls, slept,
                   fetch_ids>>
    /\ UNCHANGED streamVars
    /\ UNCHANGED callVars

\* search_pubmed lines 70-81: the ESearch call, its try block and the
\* `if not pmid_list` return
ESearch ==
    /\ spc = "called"
    /\ esearch_calls' = esearch_calls + 1
    /\ \E resp \in ESearchResponses :
          LET ids == ESearchTry(resp)
          IN  IF ids.raises
              THEN spc' = "returned" /\ pmid_list' = pmid_list
              ELSE /\ pmid_list' = ids.value
                   /\ spc' = IF Falsy(ids.value) THEN "returned"
                             ELSE "have_ids"
    /\ search_result' = <<>>
    /\ UNCHANGED <<caller, user_input, enable_pubmed, pc, gen, parsed_input,
                   result, errors, pubmed_papers, query, efetch_calls, slept,
                   fetch_ids>>
    /\ UNCHANGED streamVars
    /\ UNCHANGED callVars

\* time.sleep(0.4)
RateLimitSleep ==
    /\ spc = "have_ids"
    /\ slept' = TRUE
    /\ spc' = "slept"
    /\ UNCHANGED <<caller, user_input, enable_pubmed, pc, gen, parsed_input,
                   result, errors, pubmed_papers, query, esearch_calls,
                   efetch_calls, pmid_list, fetch_ids, search_result>>
    /\ UNCHANGED streamVars
    /\ UNCHANGED callVars

\* lines 87-92: fetch_params, with ",".join(pmid_list) outside any try
BuildFetch ==
    /\ spc = "slept"
    /\ LET ids == JoinIds(pmid_list)
       IN  IF ids.raises
           THEN spc' = "raised" /\ fetch_ids' = fetch_ids
           ELSE spc' = "fetching" /\ fetch_ids' = ids.value
    /\ UNCHANGED <<caller, user_input, enable_pubmed, pc, gen, parsed_input,
                   result, errors, pubmed_papers, query, esearch_calls,
                   efetch_calls, slept, pmid_list, search_result>>
    /\ UNCHANGED streamVars
    /\ UNCHANGED callVars

\* lines 94-102: the EFetch call, its try block, and parse_pubmed_xml
EFetch ==
    /\ spc = "fetching"
    /\ efetch_calls' = efetch_calls + 1
    /\ \E resp \in EFetchResponses :
          IF resp.kind = "urlopen_error"
          THEN spc' = "returned" /\ search_result' = <<>>
          ELSE LET parsed == parse_pubmed_xml(resp)
               IN  IF parsed.raises
                   THEN spc' = "raised" /\ search_result' = <<>>
                   ELSE spc' = "returned" /\ search_result' = parsed.value
    /\ UNCHANGED <<caller, user_input, enable_pubmed, pc, gen, parsed_input,
                   result, errors, pubmed_papers, query, esearch_calls,
                   slept, pmid_list, fetch_ids>>
    /\ UNCHANGED streamVars
    /\ UNCHANGED callVars

\* the handler without its try/except around get_evidence_for_claim
SearchReturnNoCatch ==
    /\ pc = "searching"
    /\ spc \in {"returned", "raised"}
    /\ pubmed_papers' = IF spc = "returned" THEN search_result ELSE <<>>
    /\ pc' = IF spc = "returned" THEN "report" ELSE "crashed"
    /\ UNCHANGED <<caller, user_input, enable_pubmed, gen, parsed_input,
                   result, errors>>
    /\ UNCHANGED streamVars
    /\ UNCHANGED searchVars
    /\ UNCHANGED callVars

\* app.py lines 268-271: the evidence list, empty when the call raised
SearchReturn ==
    /\ pc = "searching"
    /\ spc \in {"returned", "raised"}
    /\ pubmed_papers' = IF spc = "returned" THEN search_result ELSE <<>>
    /\ pc' = "report"
    /\ UNCHANGED <<caller, user_input, enable_pubmed, gen, parsed_input,
                   result, errors>>
    /\ UNCHANGED streamVars
    /\ UNCHANGED searchVars
    /\ UNCHANGED callVars

Next ==
    \/ AnalyzeClick
    \/ DirectCall
    \/ GenStart
    \/ WorkerPut
    \/ WorkerEnd
    \/ WorkerReturn
    \/ WorkerFail
    \/ GenYield
    \/ GenStop
    \/ GenJoin
    \/ Parse
    \/ StartSearch
    \/ ESearch
    \/ RateLimitSleep
    \/ BuildFetch
    \/ EFetch
    \/ SearchReturn

Spec == Init /\ [][Next]_vars

(***************************************************************************)
(* Properties of the analysis run.                                         *)
(***************************************************************************)

\* the positions at which the foreground has stopped
Terminal == {"warned", "failed", "raised", "drained", "report"}

\* the positions of the handler after st.write_stream has returned
PastStream == {"streamed", "parsed", "searching", "report"}

\* the fragments still in the queue, in order
QueuedFragments ==
    LET frags == SelectSeq(text_queue, LAMBDA item : ~item.stop)
    IN  [i \in 1..Len(frags) |-> frags[i].text]

\* C1: the consumer receives exactly the fragments the worker produced,
\* each once and in production order, under every interleaving: what it has
\* received followed by what is queued is what was produced; once the
\* generator is exhausted it has received them all; and the text handed to
\* parse_model_output is their concatenation.
C1_FragmentsExactlyOnceInOrder ==
    /\ received \o QueuedFragments = produced
    /\ raw_text = Join(<<>>, received)
    /\ (gen = "exhausted" => received = produced)
    /\ (pc \in {"parsed", "searching", "report"}
           => parsed_input = Join(<<>>, produced))

C1_Witness ==
    /\ pc = "parsed"
    /\ Len(produced) >= 2
    /\ produced[1] # produced[2]
    /\ parsed_input # <<>>

\* C2: the handler proceeds past the stream (and so calls
\* parse_model_output) only after the worker thread has terminated and
\* thread.join() has returned.
C2_JoinedBeforeParse ==
    pc \in PastStream \cup {"drained"} => joined /\ thread = "terminated"

C2_Witness == pc = "parsed" /\ joined /\ produced # <<>>

\* the consumer waits on an empty queue that nothing will fill again
ConsumerBlockedForever ==
    gen = "draining" /\ text_queue = <<>> /\ thread = "failed"

\* C3: a failure of the generation worker surfaces to the caller as a
\* reported error: the consumer never ends up blocked on the queue of a dead
\* worker, and a run whose worker failed ends only with the error reported
\* once.
C3_WorkerFailureSurfaces ==
    /\ ~ConsumerBlockedForever
    /\ (thread = "failed" /\ pc \in Terminal
           => pc \in {"failed", "raised"} /\ (caller = "app" => errors = 1))

\* C4: on an empty or whitespace-only claim the model is not loaded, no
\* worker thread is started and no fragment is produced or yielded; the
\* first step of the generator raises the validation error.
C4_BlankClaimStartsNothing ==
    IsBlank(user_input) =>
        /\ ~model_loaded
        /\ thread = "none"
        /\ produced = <<>>
        /\ received = <<>>
        /\ gen \in {"none", "created", "raised"}
        /\ pc \in {"idle", "streaming", "warned", "failed", "raised"}

C4_Witness ==
    /\ user_input # <<>>
    /\ IsBlank(user_input)
    /\ gen = "raised"
    /\ pc = "raised"

\* C5: a claim longer than the maximum claim length never has the
\* generation worker started on it nor the search API queried for it.
C5_OversizedClaimRejected ==
    Len(user_input) > MaxClaimChars =>
        /\ thread = "none"
        /\ Len(worker_claim) <= MaxClaimChars
        /\ esearch_calls = 0
        /\ Len(query) <= MaxClaimChars

\* the dict keys of a complete parse_model_output result
ResultFields ==
    {"credibility_score", "risk_level", "risk_reason", "medical_accuracy",
     "logical_fallacies", "evidence_summary", "key_misconceptions",
     "rebuttal", "recommendation", "raw_output"}

C7_NoIdsShortCircuits ==
    esearch_calls > 0 /\ pmid_list = JList(<<>>) =>
        /\ efetch_calls = 0
        /\ ~slept
        /\ spc = "returned"
        /\ search_result = <<>>
        /\ (pc = "report" => pubmed_papers = <<>>)

C7_Witness ==
    /\ esearch_calls = 1
    /\ pmid_list = JList(<<>>)
    /\ pc = "report"

\* C8: search_pubmed never raises to its caller.
C8_SearchNeverRaises == spc # "raised"

\* C16: within one search_pubmed run the ESearch call is issued exactly
\* once and the EFetch call at most once, never again after a failure; the
\* EFetch call is issued only after ESearch returned at least one
\* identifier and the rate-limit delay was taken, and its id parameter
\* carries all the identifiers, comma-joined.
C16_TwoPhaseOrderNoRetry ==
    /\ esearch_calls \in {0, 1}
    /\ efetch_calls \in {0, 1}
    /\ spc \notin {"none", "called"} => esearch_calls = 1
    /\ slept =>
           /\ esearch_calls = 1
           /\ pmid_list.t \in {"list", "str"}
           /\ Len(pmid_list.v) >= 1
    /\ spc = "fetching" \/ efetch_calls = 1 =>
           /\ slept
           /\ pmid_list.t = "list" =>
                  fetch_ids = Join(<<",">>, [i \in 1..Len(pmid_list.v) |->
                                               pmid_list.v[i].v])
    /\ spc = "fetching" => efetch_calls = 0

\* a run whose EFetch call, issued for two identifiers, failed or gave no
\* record, and was not issued again
C16_Witness ==
    /\ pc = "report"
    /\ esearch_calls = 1
    /\ efetch_calls = 1
    /\ slept
    /\ fetch_ids = <<"3", "1", ",", "7">>
    /\ search_result = <<>>

(***************************************************************************)
(* parse_pubmed_xml called alone, on the documents an EFetch response can  *)
(* hold.                                                                   *)
(***************************************************************************)

\* the sequences over S of length at most n
BoundedSeqs(S, n) == UNION {[1..k -> S] : k \in 0..n}

\* a complete record whose one <AbstractText> holds n characters
ArticleWithAbstract(n) ==
    [ArticleFull EXCEPT !.abstracts = <<<<Rep("a", n)>>>>]

XmlArticles ==
    {ArticleFull, ArticleNoTitle, ArticleManyAuthors, ArticleBare,
     ArticleWithAbstract(AbstractChars - 1),
     ArticleWithAbstract(AbstractChars),
     ArticleWithAbstract(AbstractChars + 1)}

XmlInputs ==
    {[kind |-> "malformed", articles |-> <<>>],
     [kind |-> "unknown_encoding", articles |-> <<>>]}
        \cup {[kind |-> "doc", articles |-> batch] :
                 batch \in BoundedSeqs(XmlArticles, MaxBatch)}

InitXml ==
    /\ RunInit("direct", <<>>)
    /\ \E xml \in XmlInputs : XmlInit(xml)
    /\ ParseInit(FALSE, <<>>)
    /\ ScoreInit(FALSE, <<>>)
    /\ ListInit(FALSE, <<>>)

\* results = parse_pubmed_xml(xml_data)
ParseXmlCall ==
    /\ xml_pc = "called"
    /\ LET parsed == parse_pubmed_xml(xml_data)
       IN  IF parsed.raises
           THEN xml_pc' = "raised" /\ xml_returned' = xml_returned
           ELSE xml_pc' = "returned" /\ xml_returned' = parsed.value
    /\ UNCHANGED <<xml_data, model_output, parse_pc, parse_returned>>
    /\ UNCHANGED <<runVars, utilVars>>

NextXml == ParseXmlCall

SpecXml == InitXml /\ [][NextXml]_vars

\* the articles of the batch that have their <ArticleTitle>
TitledArticles ==
    SelectSeq(xml_data.articles, LAMBDA a : a.title # <<>>)

\* C9 as stated: a record missing its title tag is dropped from the result,
\* and the well-formed records of the batch are returned in batch order.
C9_TitlelessRecordDropped ==
    xml_pc = "returned" /\ xml_data.kind = "doc" =>
        /\ Len(xml_returned) = Len(TitledArticles)
        /\ \A i \in 1..Len(xml_returned) :
              /\ xml_returned[i].title = FlatText(TitledArticles[i].title[1])
              /\ xml_returned[i].pmid = TitledArticles[i].pmid[1]

\* C9, amended: the batch never fails because of one record, and every
\* record of the batch is returned, in batch order; a record missing its
\* title tag is not dropped but returned with the title "N/A".
C9_EveryRecordReturnedInOrder ==
    xml_pc = "returned" /\ xml_data.kind = "doc" =>
        /\ Len(xml_returned) = Len(xml_data.articles)
        /\ \A i \in 1..Len(xml_returned) :
              LET article == xml_data.articles[i]
              IN  /\ xml_returned[i].pmid =
                         (IF article.pmid = <<>> THEN <<>>
                          ELSE article.pmid[1])
                  /\ (article.title = <<>>
                         => xml_returned[i].title = <<"N", "/", "A">>)
                  /\ (article.title # <<>>
                         => xml_returned[i].title
                                = Join(<<>>, article.title[1]))

C9_Witness ==
    /\ xml_pc = "returned"
    /\ xml_data.articles = <<ArticleNoTitle, ArticleFull>>
    /\ Len(xml_returned) = 2
    /\ xml_returned[1].title = <<"N", "/", "A">>
    /\ xml_returned[2].title = <<"T", "e", "a", " ", "i", "n">>

\* C15: the abstract of every returned record is the source abstract (its
\* <AbstractText> texts joined by spaces) capped at 300 characters, with
\* the marker "..." appended if and only if the source abstract is longer
\* than 300 characters; one of 300 characters or fewer is returned
\* unchanged.
C15_EllipsisIffTruncated ==
    xml_pc = "returned" /\ Len(xml_returned) = Len(xml_data.articles)
    =>  \A i \in 1..Len(xml_returned) :
           LET texts  == xml_data.articles[i].abstracts
               source == Join(<<" ">>, [k \in 1..Len(texts) |->
                                          Join(<<>>, texts[k])])
           IN  xml_returned[i].abstract =
                   IF Len(source) > 300
                   THEN SubSeq(source, 1, 300) \o <<".", ".", ".">>
                   ELSE source

(***************************************************************************)
(* parse_model_output called alone, on texts put together from pieces of   *)
(* model output.                                                           *)
(***************************************************************************)

\* the nine tags, in the order parse_model_output extracts them
AllTags ==
    <<TagCredibilityScore, TagRiskLevel, TagRiskReason, TagMedicalAccuracy,
      TagLogicalFallacies, TagEvidenceSummary, TagKeyMisconceptions,
      TagScientificRebuttal, TagExpertRecommendation>>

\* "[" + tag + "]", the literal text the pattern of extract_section matches
TagMarker(tag) == <<"[">> \o tag \o <<"]">>

\* the nine sections of a model output that follows the prompt's format
Sections ==
    <<TagMarker(TagCredibilityScore) \o <<" ", "2", "0", "/", "1", "0", "0">>,
      TagMarker(TagRiskLevel) \o <<" ">> \o LevelDangerous,
      TagMarker(TagRiskReason) \o <<" ", "r">>,
      TagMarker(TagMedicalAccuracy) \o <<" ", "m">>,
      TagMarker(TagLogicalFallacies) \o <<"\n", "-", " ", "f">>,
      TagMarker(TagEvidenceSummary) \o <<" ", "e">>,
      TagMarker(TagKeyMisconceptions) \o <<"\n", "-", " ", "k">>,
      TagMarker(TagScientificRebuttal) \o <<" ", "b">>,
      TagMarker(TagExpertRecommendation) \o <<" ", "c">>>>

\* the outputs that carry some of the nine sections, in the prompt's order
TaggedOutputs ==
    {Join(<<>>, [i \in 1..Len(Sections) |->
                    IF i \in kept THEN Sections[i] \o <<"\n">> ELSE <<>>]) :
        kept \in SUBSET (1..Len(Sections))}

Pieces ==
    {<<" ">>,
     <<"\n">>,
     <<"\t">>,
     <<"8", "5">>,
     <<"-", " ", "x", "\n">>,
     TagMarker(TagCredibilityScore),
     TagMarker(TagRiskLevel),
     TagMarker(TagKeyMisconceptions)}

ModelOutputs ==
    {Join(<<>>, pieces) : pieces \in BoundedSeqs(Pieces, MaxPieces)}
        \cup TaggedOutputs

InitParse ==
    /\ RunInit("direct", <<>>)
    /\ XmlInit(NoXml)
    /\ \E text \in ModelOutputs : ParseInit(TRUE, text)
    /\ ScoreInit(FALSE, <<>>)
    /\ ListInit(FALSE, <<>>)

\* result = parse_model_output(raw_text)
ParseOutputCall ==
    /\ parse_pc = "called"
    /\ parse_returned' = parse_model_output(model_output)
    /\ parse_pc' = "returned"
    /\ UNCHANGED <<model_output, xml_data, xml_pc, xml_returned>>
    /\ UNCHANGED <<runVars, utilVars>>

NextParse == ParseOutputCall

SpecParse == InitParse /\ [][NextParse]_vars

\* C10: on the empty string and on every whitespace-only string,
\* parse_model_output returns the fixed all-defaults record: parse error
\* set, score 0, risk level Misleading, both lists empty, raw output
\* "(empty)".
C10_BlankOutputGivesDefaults ==
    parse_pc = "returned"
        /\ (\A i \in 1..Len(model_output) : model_output[i] \in Whitespace)
    =>  /\ "parse_error" \in DOMAIN parse_returned
        /\ parse_returned.parse_error = TRUE
        /\ parse_returned.credibility_score = 0
        /\ parse_returned.risk_level
               = <<"M", "i", "s", "l", "e", "a", "d", "i", "n", "g">>
        /\ parse_returned.logical_fallacies = <<>>
        /\ parse_returned.key_misconceptions = <<>>
        /\ parse_returned.raw_output = <<"(", "e", "m", "p", "t", "y", ")">>
        /\ parse_returned.risk_reason # <<>>
        /\ parse_returned.medical_accuracy # <<>>
        /\ parse_returned.evidence_summary # <<>>
        /\ parse_returned.rebuttal # <<>>
        /\ parse_returned.recommendation # <<>>

C10_Witness ==
    /\ parse_pc = "returned"
    /\ model_output = <<" ", "\n", "\t">>
    /\ parse_returned.parse_error = TRUE
    /\ parse_returned.credibility_score = 0

\* The text with every missing tag added after it, each with content.
Completed(text) ==
    text \o Join(<<>>, [i \in 1..Len(AllTags) |->
                            IF Contains(text, TagMarker(AllTags[i])) THEN <<>>
                            ELSE <<"\n">> \o TagMarker(AllTags[i])
                                     \o <<" ", "-", " ", "z">>])

\* C11: for a non-blank raw text, every field whose tag is missing gets
\* its own fallback (medical accuracy the first 500 characters of the raw
\* text, the other text fields their placeholders, score 50, risk level
\* Misleading, lists empty), every field whose tag is present is what the
\* same text with the missing tags added gives, and no parse error is
\* reported.
C11_MissingTagsFallBackIndependently ==
    parse_pc = "returned" /\ ~IsBlank(model_output)
    =>  \A text \in {model_output} :
        \A missing \in {{tag \in Range(AllTags) :
                            ~Contains(text, TagMarker(tag))}} :
        \A full \in {parse_model_output(Completed(text))} :
        \A first500 \in {Prefix(text, 500)} :
        LET r == parse_returned
        IN  /\ "parse_error" \notin DOMAIN r
            /\ r.credibility_score =
                   IF TagCredibilityScore \in missing THEN 50
                   ELSE full.credibility_score
            /\ r.risk_level =
                   IF TagRiskLevel \in missing
                   THEN <<"M", "i", "s", "l", "e", "a", "d", "i", "n", "g">>
                   ELSE full.risk_level
            /\ r.risk_reason =
                   IF TagRiskReason \in missing THEN DefaultRiskReason
                   ELSE full.risk_reason
            /\ r.medical_accuracy =
                   IF TagMedicalAccuracy \in missing THEN first500
                   ELSE IF full.medical_accuracy
                               = Prefix(Completed(text), 500)
                   THEN first500
                   ELSE full.medical_accuracy
            /\ r.logical_fallacies =
                   IF TagLogicalFallacies \in missing THEN <<>>
                   ELSE full.logical_fallacies
            /\ r.evidence_summary =
                   IF TagEvidenceSummary \in missing
                   THEN DefaultEvidenceSummary
                   ELSE full.evidence_summary
            /\ r.key_misconceptions =
                   IF TagKeyMisconceptions \in missing THEN <<>>
                   ELSE full.key_misconceptions
            /\ r.rebuttal =
                   IF TagScientificRebuttal \in missing THEN DefaultRebuttal
                   ELSE full.rebuttal
            /\ r.recommendation =
                   IF TagExpertRecommendation \in missing
                   THEN DefaultRecommendation
                   ELSE full.recommendation

\* a returned parse of a text with the risk level and score tags (out of
\* order) and the seven other tags missing
C11_Witness ==
    /\ parse_pc = "returned"
    /\ model_output = TagMarker(TagRiskLevel)
                          \o TagMarker(TagCredibilityScore) \o <<"8", "5">>
    /\ parse_returned.credibility_score = 85
    /\ parse_returned.risk_reason = DefaultRiskReason
    /\ parse_returned.medical_accuracy = model_output
    /\ parse_returned.logical_fallacies = <<>>
    /\ "parse_error" \notin DOMAIN parse_returned

\* C12: every result parse_model_output returns, for every input text, is
\* well-formed: the score is an integer in [0,100], the risk level is one
\* of Safe, Misleading and Dangerous, and the risk reason, medical accuracy,
\* evidence summary, rebuttal and recommendation are non-empty strings.
C12_ResultWellFormed ==
    parse_pc = "returned"
    =>  /\ parse_returned.credibility_score \in 0..100
        /\ parse_returned.risk_level
               \in {<<"S", "a", "f", "e">>,
                    <<"M", "i", "s", "l", "e", "a", "d", "i", "n", "g">>,
                    <<"D", "a", "n", "g", "e", "r", "o", "u", "s">>}
        /\ Len(parse_returned.risk_reason) > 0
        /\ Len(parse_returned.medical_accuracy) > 0
        /\ Len(parse_returned.evidence_summary) > 0
        /\ Len(parse_returned.rebuttal) > 0
        /\ Len(parse_returned.recommendation) > 0

\* a returned parse of a malformed text: a score section whose only token
\* is out of range, and nothing else
C12_Witness ==
    /\ parse_pc = "returned"
    /\ model_output
           = TagMarker(TagCredibilityScore) \o <<"8", "5", "8", "5">>
    /\ parse_returned.credibility_score = 50
    /\ parse_returned.medical_accuracy = model_output
    /\ parse_returned.logical_fallacies = <<>>

(***************************************************************************)
(* extract_score on its own: the function called on one score text.        *)
(***************************************************************************)

\* The texts extract_score is called on: up to MaxScorePieces of these
\* pieces, joined.
ScorePieces ==
    {<<"-">>,
     <<"5">>,
     <<"3", "0">>,
     <<"8", "5">>,
     <<"1", "0", "0">>,
     <<"1", "4", "0">>,
     <<"/">>,
     <<" ", "b", "u", "t", " ", "m", "a", "y", "b", "e", " ">>}

ScoreTexts ==
    {Join(<<>>, pieces) : pieces \in BoundedSeqs(ScorePieces, MaxScorePieces)}

InitScore ==
    /\ RunInit("direct", <<>>)
    /\ XmlInit(NoXml)
    /\ ParseInit(FALSE, <<>>)
    /\ \E text \in ScoreTexts : ScoreInit(TRUE, text)
    /\ ListInit(FALSE, <<>>)

\* score = extract_score(score_text)
ExtractScoreCall ==
    /\ score_pc = "called"
    /\ score_returned' = extract_score(score_text)
    /\ score_pc' = "returned"
    /\ UNCHANGED <<score_text, section_text, list_pc, list_returned>>
    /\ UNCHANGED <<runVars, xml_data, xml_pc, xml_returned, model_output,
                   parse_pc, parse_returned>>

NextScore == ExtractScoreCall

SpecScore == InitScore /\ [][NextScore]_vars

\* The integer tokens of a text, read with their sign: each maximal run of
\* digits, negative when a minus sign stands right before it.
SignedTokens(text) ==
    {[at       |-> r[1],
      negative |-> r[1] > 1 /\ text[r[1] - 1] = "-",
      digits   |-> SubSeq(text, r[1], r[2])] : r \in DigitRuns(text)}

\* the token's value lies in [0,100]: at most 100 in size, and not below 0
TokenInRange(t) ==
    /\ LET significant == LStrip(t.digits, {"0"})
       IN  Len(significant) <= 2 \/ significant = <<"1", "0", "0">>
    /\ t.negative => \A k \in 1..Len(t.digits) : t.digits[k] = "0"

\* C13: extract_score returns the first integer token of the text, in
\* encounter order, whose value lies in [0,100], and 50 when no token is in
\* range; a negative token is ignored as a whole (its digits are not read
\* as a token of their own).
C13_FirstInRangeTokenOrFifty ==
    score_pc = "returned"
    =>  LET inrange == {t \in SignedTokens(score_text) : TokenInRange(t)}
        IN  IF inrange = {} THEN score_returned = 50
            ELSE \E t \in inrange :
                    /\ \A o \in inrange : t.at <= o.at
                    /\ score_returned =
                           IF t.negative THEN 0 ELSE ToInt(t.digits)

(***************************************************************************)
(* extract_list_items on its own: the function called on one section.      *)
(***************************************************************************)

\* The sections extract_list_items is called on: up to MaxListPieces of
\* these pieces, joined.
ListPieces ==
    {<<"-", " ">>,
     <<"*">>,
     <<"U+2022">>,
     <<"x">>,
     <<"N", "o", "n", "e">>,
     <<"n", "/", "a">>,
     <<"\n">>,
     <<" ">>}

SectionTexts ==
    {Join(<<>>, pieces) : pieces \in BoundedSeqs(ListPieces, MaxListPieces)}

InitList ==
    /\ RunInit("direct", <<>>)
    /\ XmlInit(NoXml)
    /\ ParseInit(FALSE, <<>>)
    /\ ScoreInit(FALSE, <<>>)
    /\ \E text \in SectionTexts : ListInit(TRUE, text)

\* items = extract_list_items(section_text)
ExtractListCall ==
    /\ list_pc = "called"
    /\ list_returned' = extract_list_items(section_text)
    /\ list_pc' = "returned"
    /\ UNCHANGED <<section_text, score_text, score_pc, score_returned>>
    /\ UNCHANGED <<runVars, xml_data, xml_pc, xml_returned, model_output,
                   parse_pc, parse_returned>>

NextList == ExtractListCall

SpecList == InitList /\ [][NextList]_vars

\* what is left of a line or an item once its bullet markers are stripped
MarkerStripped(line) ==
    Strip(LStrip(Strip(line), {"-", "U+2022", "U+00B7", "*", " "}))

\* the line starts with a bullet marker
IsBulleted(line) ==
    Strip(line) # <<>> /\ Strip(line)[1] \in {"-", "U+2022", "U+00B7", "*"}

\* "none", "n/a" or "na", in any case
IsSentinel(content) ==
    Lower(content) \in {<<"n", "o", "n", "e">>, <<"n", "/", "a">>, <<"n", "a">>}

\* the marker-stripped contents of the bulleted lines whose content is
\* neither empty nor a sentinel, in line order
RECURSIVE BulletContents(_)
BulletContents(lines) ==
    IF lines = <<>> THEN <<>>
    ELSE (IF IsBulleted(Head(lines))
             /\ MarkerStripped(Head(lines)) # <<>>
             /\ ~IsSentinel(MarkerStripped(Head(lines)))
          THEN <<MarkerStripped(Head(lines))>>
          ELSE <<>>) \o BulletContents(Tail(lines))

\* C14: extract_list_items returns, in line order, the marker-stripped
\* content of every bulleted line whose content is non-empty and not a
\* sentinel; the whole trimmed section is returned as the single item only
\* when the section has no bulleted line at all and is itself non-empty and
\* not a sentinel; and no returned item is empty or a sentinel once its
\* bullet markers are stripped.
C14_BulletItemsOrWholeSection ==
    list_pc = "returned"
    =>  LET lines == SplitLines(section_text)
            whole == Strip(section_text)
        IN  /\ list_returned =
                   IF \E i \in 1..Len(lines) : IsBulleted(lines[i])
                   THEN BulletContents(lines)
                   ELSE IF whole # <<>> /\ ~IsSentinel(whole)
                   THEN <<whole>>
                   ELSE <<>>
            /\ \A k \in 1..Len(list_returned) :
                   /\ MarkerStripped(list_returned[k]) # <<>>
                   /\ ~IsSentinel(MarkerStripped(list_returned[k]))

=============================================================================
